---- MODULE Spec2Model ----
(***************************************************************************)
(* Model of openbench's SimpleQA "search signal" scorer                    *)
(* (src/src/openbench/scorers/simpleqa_search_signal.py):                  *)
(*   - extract_tool_calls : the tool-call detector (_extract_tool_calls)   *)
(*   - score              : the abstention-aware scorer, an async function *)
(*                          with one suspension point (the baseline grader)*)
(*   - metric_calculator  : the metrics aggregator                         *)
(*                                                                         *)
(* Python values are modelled as follows.  A str that is only compared is  *)
(* a TLA+ string; the completion text, which is stripped, is a sequence of *)
(* one-character strings.  None, where a str is expected, is the value     *)
(* None below.  A dict is a function from the keys it holds to values, so  *)
(* a missing key is a key outside DOMAIN.  A float rate n/d is the reduced *)
(* fraction <<n, d>> (0.0 is <<0, 1>>): for the small integers counted     *)
(* here two quotients are equal floats exactly when the fractions agree.   *)
(***************************************************************************)
EXTENDS Integers, Sequences, FiniteSets, TLC

\* ------------------------------------------------------------------ bounds
\* Total number of tool-invocation entries in a transcript built in SpecDetector.
MaxCalls == 2
\* Number of messages in the history of a transcript built in SpecDetector.
MaxMsgs == 2
\* Length of the completion text of a sample.
MaxLen == 2
\* Number of scores in a collection handed to the aggregator in SpecMetrics.
MaxScores == 3
\* Number of samples scored concurrently in SpecConcurrent.
NSamples == 2

\* ------------------------------------------------------------ Python values
None == "<None>"

\* Truth value of a str-or-None: None and "" are falsy.
Truthy(x) == x # None /\ x # ""

\* Python's `a or b` on str-or-None operands.
Or(a, b) == IF Truthy(a) THEN a ELSE b

\* A list-or-None attribute, e.g. tool_calls: [none |-> TRUE] is None.
NoList == [none |-> TRUE, items |-> <<>>]
List(s) == [none |-> FALSE, items |-> s]

\* Truth value of a list-or-None: None and [] are falsy.
TruthyList(l) == ~l.none /\ Len(l.items) > 0

\* ------------------------------------------------------------- transcripts
\* A tool-invocation entry: a dict or an object, with an optional flat name
\* and an optional nested function carrying a name.  NoFunction stands for
\* every function value that yields no name: a missing or None function, and
\* one without a name attribute.
NoFunction == [present |-> FALSE, name |-> None]
Function(n) == [present |-> TRUE, name |-> n]

ToolCalls ==
    [shape : {"dict", "object"},
     name : {None, "", "search"},
     function : {NoFunction, Function("fetch")}]

Roles == {"assistant", "user"}

\* ---------------------------------------------------------------- detector
\* Lines 34-41: the name of one entry, or a falsy value when none is found.
ExtractName(tc) ==
    IF tc.shape = "dict"
    THEN Or(tc.name, IF tc.function.present THEN tc.function.name ELSE None)
    ELSE IF tc.name = None
         THEN (IF tc.function.present THEN tc.function.name ELSE None)
         ELSE tc.name

\* Lines 32-43 and 51-61: the loop appending each truthy name to tool_names.
\* Names are str values here, for which str(name) on line 43 is the name.
RECURSIVE AppendNames(_, _)
AppendNames(tool_names, calls) ==
    IF calls = <<>>
    THEN tool_names
    ELSE LET name == ExtractName(Head(calls))
         IN AppendNames(IF Truthy(name) THEN Append(tool_names, name) ELSE tool_names,
                        Tail(calls))

\* The names of every assistant message from message i on.
RECURSIVE HistoryNames(_, _)
HistoryNames(messages, i) ==
    IF i > Len(messages)
    THEN <<>>
    ELSE IF messages[i].role = "assistant" /\ TruthyList(messages[i].tool_calls)
         THEN AppendNames(<<>>, messages[i].tool_calls.items)
                  \o HistoryNames(messages, i + 1)
         ELSE HistoryNames(messages, i + 1)

\* The scan without the return of line 62: the loop runs to its end and line
\* 64 returns False with the names collected.
ScanMessagesNoReturn(messages, i) ==
    [tool_called |-> FALSE, tool_names |-> HistoryNames(messages, i)]

\* The scan with the role test of line 48 dropped.
RECURSIVE ScanMessagesAnyRole(_, _)
ScanMessagesAnyRole(messages, i) ==
    IF i > Len(messages)
    THEN [tool_called |-> FALSE, tool_names |-> <<>>]
    ELSE IF TruthyList(messages[i].tool_calls)
         THEN [tool_called |-> TRUE,
               tool_names |-> AppendNames(<<>>, messages[i].tool_calls.items)]
         ELSE ScanMessagesAnyRole(messages, i + 1)

\* Lines 47-62: the scan of state.messages from message i on.
RECURSIVE ScanMessages(_, _)
ScanMessages(messages, i) ==
    IF i > Len(messages)
    THEN [tool_called |-> FALSE, tool_names |-> <<>>]
    ELSE IF messages[i].role = "assistant" /\ TruthyList(messages[i].tool_calls)
         THEN [tool_called |-> TRUE,
               tool_names |-> AppendNames(<<>>, messages[i].tool_calls.items)]
         ELSE ScanMessages(messages, i + 1)

\* The detector with the two sources consulted in the other order.
extract_tool_calls_history_first(state) ==
    IF ScanMessages(state.messages, 1).tool_called
    THEN ScanMessages(state.messages, 1)
    ELSE IF TruthyList(state.output_tool_calls)
         THEN [tool_called |-> TRUE,
               tool_names |-> AppendNames(<<>>, state.output_tool_calls.items)]
         ELSE [tool_called |-> FALSE, tool_names |-> <<>>]

\* Lines 21-64: _extract_tool_calls(state).
extract_tool_calls(state) ==
    IF TruthyList(state.output_tool_calls)
    THEN [tool_called |-> TRUE,
          tool_names |-> AppendNames(<<>>, state.output_tool_calls.items)]
    ELSE ScanMessages(state.messages, 1)

\* ------------------------------------------------------------------ dicts
\* d.get(k): None for a missing key.
Get(d, k) == IF k \in DOMAIN d THEN d[k] ELSE None

\* d.get(k, default).
GetOr(d, k, default) == IF k \in DOMAIN d THEN d[k] ELSE default

\* An update in which the keys d already holds keep their values.
UpdateKeepOld(d, u) ==
    [k \in DOMAIN d \cup DOMAIN u |-> IF k \in DOMAIN d THEN d[k] ELSE u[k]]

\* d.update(u), as a value: u's keys overwrite or are added.
Update(d, u) ==
    [k \in DOMAIN d \cup DOMAIN u |-> IF k \in DOMAIN u THEN u[k] ELSE d[k]]

EmptyDict == [k \in {} |-> None]

\* An optional metadata mapping of a Score: [none |-> TRUE] is metadata=None.
NoMetadata == [none |-> TRUE, dict |-> EmptyDict]
Metadata(d) == [none |-> FALSE, dict |-> d]

\* `metadata or {}`: None and the empty dict both give {}.
OrEmptyDict(m) == IF m.none THEN EmptyDict ELSE m.dict

Score(value, answer, metadata) ==
    [value |-> value, answer |-> answer, metadata |-> metadata]

\* ---------------------------------------------------------------- strings
Whitespace == {" ", "\t", "\n"}
Chars == {" ", "\t", "a"}

RECURSIVE LStrip(_)
LStrip(s) == IF s # <<>> /\ Head(s) \in Whitespace THEN LStrip(Tail(s)) ELSE s

RECURSIVE RStrip(_)
RStrip(s) ==
    IF s # <<>> /\ s[Len(s)] \in Whitespace
    THEN RStrip(SubSeq(s, 1, Len(s) - 1))
    ELSE s

\* str.strip(): leading and trailing whitespace removed.
Strip(s) == RStrip(LStrip(s))

\* str.lower() on the grade vocabulary of this model.
Lower(s) ==
    CASE s = "CORRECT" -> "correct"
      [] s = "Incorrect" -> "incorrect"
      [] s = "NOT_ATTEMPTED" -> "not_attempted"
      [] OTHER -> s

\* ------------------------------------------------------------------ scorer
\* The predicted answer without the .strip() of line 132.
PredictedAnswerUnstripped(state) ==
    IF state.completion.none THEN <<>> ELSE state.completion.text

\* Line 132: predicted_answer = (state.output.completion or "").strip().
PredictedAnswer(state) ==
    Strip(IF state.completion.none THEN <<>> ELSE state.completion.text)

\* Lines 132-135: the locals a scoring call holds across its await.
Frame(state) ==
    [predicted_answer |-> PredictedAnswer(state),
     tool_called |-> extract_tool_calls(state).tool_called,
     tool_names |-> extract_tool_calls(state).tool_names]

\* Line 138: a tool was called and there is no answer text.
Abstains(f) == f.tool_called /\ f.predicted_answer = <<>>

\* Lines 139-149: the Score returned without grading.
AbstainScore(f) ==
    Score(0, f.predicted_answer,
          Metadata([grade |-> "not_attempted",
                    grade_letter |-> "C",
                    tool_called |-> TRUE,
                    tools |-> f.tool_names,
                    abstention_reason |-> "tool_call"]))

\* Line 162: md.get("grade", "").lower() raises AttributeError when the baseline
\* stored None under "grade"; it is evaluated only when the baseline's own
\* abstention_reason is falsy (line 161, `or`).
MergeRaises(f, graded) ==
    LET md == OrEmptyDict(graded.metadata)
    IN  /\ ~Truthy(Get(md, "abstention_reason"))
        /\ GetOr(md, "grade", "") = None

\* The abstention_reason with the `not tool_called` test of line 162 dropped.
AbstentionReasonAnyTool(f, md) ==
    Or(Get(md, "abstention_reason"),
       IF Lower(GetOr(md, "grade", "")) = "not_attempted"
       THEN "grader_not_attempted"
       ELSE None)

\* The abstention_reason with the grade test of line 162 dropped.
AbstentionReasonAnyGrade(f, md) ==
    Or(Get(md, "abstention_reason"),
       IF ~f.tool_called THEN "grader_not_attempted" ELSE None)

\* Lines 160-163: the abstention_reason written into the merged metadata.
AbstentionReason(f, md) ==
    Or(Get(md, "abstention_reason"),
       IF Lower(GetOr(md, "grade", "")) = "not_attempted" /\ ~f.tool_called
       THEN "grader_not_attempted"
       ELSE None)

\* Lines 154-167: the Score returned after the baseline grader answered.
MergeScore(f, graded) ==
    LET md == OrEmptyDict(graded.metadata)
    IN  Score(graded.value, graded.answer,
              Metadata(Update(md, [tool_called |-> f.tool_called,
                                   tools |-> f.tool_names,
                                   abstention_reason |-> AbstentionReason(f, md)])))

\* ------------------------------------------------------------- aggregator
RECURSIVE GCD(_, _)
GCD(a, b) == IF b = 0 THEN a ELSE GCD(b, a % b)

\* The float n / d, d > 0, as a reduced fraction.
Div(n, d) == <<n \div GCD(n, d), d \div GCD(n, d)>>

\* The float literal 0.0.
Zero == <<0, 1>>

\* Lines 81-84: the counters before the loop.
ZeroTally ==
    [tool_called |-> 0, abstain_via_tool |-> 0,
     attempted_answers |-> 0, incorrect_answers |-> 0]

\* The iteration with the `elif` of line 99 written as `if`.
CountBoth(t, s) ==
    LET md == OrEmptyDict(s.metadata)
        grade == Lower(Or(Get(md, "grade"), ""))
        tool == GetOr(md, "tool_called", FALSE)
        abstention_reason == Get(md, "abstention_reason")
        t1 == IF tool THEN [t EXCEPT !.tool_called = @ + 1] ELSE t
        t2 == IF grade \in {"correct", "incorrect"}
              THEN [t1 EXCEPT !.attempted_answers = @ + 1,
                              !.incorrect_answers =
                                  IF grade = "incorrect" THEN @ + 1 ELSE @]
              ELSE t1
    IN  IF tool /\ abstention_reason = "tool_call"
        THEN [t2 EXCEPT !.abstain_via_tool = @ + 1]
        ELSE t2

\* Lines 87-100: one iteration of the loop, on the score s.
Count(t, s) ==
    LET md == OrEmptyDict(s.metadata)
        grade == Lower(Or(Get(md, "grade"), ""))
        tool == GetOr(md, "tool_called", FALSE)
        abstention_reason == Get(md, "abstention_reason")
        t1 == IF tool THEN [t EXCEPT !.tool_called = @ + 1] ELSE t
    IN  IF grade \in {"correct", "incorrect"}
        THEN [t1 EXCEPT !.attempted_answers = @ + 1,
                        !.incorrect_answers = IF grade = "incorrect" THEN @ + 1 ELSE @]
        ELSE IF tool /\ abstention_reason = "tool_call"
             THEN [t1 EXCEPT !.abstain_via_tool = @ + 1]
             ELSE t1

\* Lines 86-100: the loop over scores.
RECURSIVE Tally(_, _)
Tally(t, scores) ==
    IF scores = <<>> THEN t ELSE Tally(Count(t, Head(scores)), Tail(scores))

\* The aggregator with hallucination_rate taken over all scores.
metric_calculator_over_total(scores) ==
    IF scores = <<>>
    THEN [search_call_rate |-> Zero,
          abstain_via_tool_rate |-> Zero,
          attempted_answer_rate |-> Zero,
          hallucination_rate |-> Zero]
    ELSE LET total == Len(scores)
             t == Tally(ZeroTally, scores)
         IN  [search_call_rate |-> Div(t.tool_called, total),
              abstain_via_tool_rate |-> Div(t.abstain_via_tool, total),
              attempted_answer_rate |-> Div(t.attempted_answers, total),
              hallucination_rate |-> Div(t.incorrect_answers, total)]

\* Lines 71-114: metric_calculator(scores).
metric_calculator(scores) ==
    IF scores = <<>>
    THEN [search_call_rate |-> Zero,
          abstain_via_tool_rate |-> Zero,
          attempted_answer_rate |-> Zero,
          hallucination_rate |-> Zero]
    ELSE LET total == Len(scores)
             t == Tally(ZeroTally, scores)
         IN  [search_call_rate |-> Div(t.tool_called, total),
              abstain_via_tool_rate |-> Div(t.abstain_via_tool, total),
              attempted_answer_rate |-> Div(t.attempted_answers, total),
              hallucination_rate |->
                  IF t.attempted_answers > 0
                  THEN Div(t.incorrect_answers, t.attempted_answers)
                  ELSE Zero]

\* The number of divisions metric_calculator(scores) evaluates: none on line
\* 73-78, three on lines 102-104, and the one of line 106 when its guard holds.
Divisions(scores) ==
    IF scores = <<>>
    THEN 0
    ELSE 3 + (IF Tally(ZeroTally, scores).attempted_answers > 0 THEN 1 ELSE 0)

\* A TaskState as the scorer reads it: state.output.completion,
\* state.output.message.tool_calls (None when there is no message) and
\* state.messages, each message with a role and a tool_calls attribute.
NoCompletion == [none |-> TRUE, text |-> <<>>]
Completion(s) == [none |-> FALSE, text |-> s]

TaskState(completion, output_tool_calls, messages) ==
    [completion |-> completion,
     output_tool_calls |-> output_tool_calls,
     messages |-> messages]

Message(role, tool_calls) == [role |-> role, tool_calls |-> tool_calls]

RECURSIVE HistoryCalls(_)
HistoryCalls(messages) ==
    IF messages = <<>>
    THEN 0
    ELSE Len(Head(messages).tool_calls.items) + HistoryCalls(Tail(messages))

\* The number of tool-invocation entries a transcript holds.
TotalCalls(state) == Len(state.output_tool_calls.items) + HistoryCalls(state.messages)

VARIABLES
    transcript,   \* SpecDetector: the TaskState handed to the detector
    detected,     \* SpecDetector: what _extract_tool_calls returned for it
    samples,      \* the TaskState of each scoring call
    pc,           \* each scoring call's position: start, await, done, raised
    frame,        \* each scoring call's locals, set before the await
    graded,       \* what baseline_grader returned to each call: <<>> or <<score>>
    result,       \* each scoring call's returned Score: <<>> or <<score>>
    grader_calls, \* how many times each scoring call invoked baseline_grader
    started,      \* the scoring calls that began, in the order they began
    completed,    \* the scoring calls that returned, in the order they returned
    scores,       \* the collection handed to metric_calculator
    runs          \* what each run of metric_calculator on scores returned

vars == <<transcript, detected, samples, pc, frame, graded, result, grader_calls,
          started, completed, scores, runs>>

scorerVars == <<samples, pc, frame, graded, result, grader_calls, started, completed>>

NotDetected == [done |-> FALSE, tool_called |-> FALSE, tool_names |-> <<>>]

NoTranscript == TaskState(NoCompletion, NoList, <<>>)

NoFrame == [predicted_answer |-> <<>>, tool_called |-> FALSE, tool_names |-> <<>>]

\* No scoring call exists.
NoScoring ==
    /\ samples = <<>>
    /\ pc = <<>>
    /\ frame = <<>>
    /\ graded = <<>>
    /\ result = <<>>
    /\ grader_calls = <<>>
    /\ started = <<>>
    /\ completed = <<>>

\* ------------------------------------------------- SpecDetector: the detector
\* The generation runtime produces the transcript: an output message with or
\* without a tool_calls list, and a message history.
InitDetector ==
    /\ transcript \in {TaskState(NoCompletion, l, <<>>) : l \in {NoList, List(<<>>)}}
    /\ detected = NotDetected
    /\ NoScoring
    /\ scores = <<>>
    /\ runs = <<>>

\* The runtime records one more tool invocation on the output message.
AddOutputToolCall(tc) ==
    /\ ~detected.done
    /\ transcript.messages = <<>>
    /\ TotalCalls(transcript) < MaxCalls
    /\ transcript' = [transcript EXCEPT
                         !.output_tool_calls = List(Append(@.items, tc))]
    /\ UNCHANGED <<detected, scorerVars, scores, runs>>

\* The runtime appends a message to the history.
AddMessage(role, tool_calls) ==
    /\ ~detected.done
    /\ Len(transcript.messages) < MaxMsgs
    /\ transcript' = [transcript EXCEPT
                         !.messages = Append(@, Message(role, tool_calls))]
    /\ UNCHANGED <<detected, scorerVars, scores, runs>>

\* The runtime records one more tool invocation on the last message.
AddMessageToolCall(tc) ==
    /\ ~detected.done
    /\ transcript.messages # <<>>
    /\ TotalCalls(transcript) < MaxCalls
    /\ transcript' = [transcript EXCEPT
                         !.messages[Len(transcript.messages)].tool_calls =
                             List(Append(@.items, tc))]
    /\ UNCHANGED <<detected, scorerVars, scores, runs>>

\* Line 135: tool_called, tool_names = _extract_tool_calls(state).
Detect ==
    /\ ~detected.done
    /\ detected' = [done |-> TRUE,
                    tool_called |-> extract_tool_calls(transcript).tool_called,
                    tool_names |-> extract_tool_calls(transcript).tool_names]
    /\ UNCHANGED <<transcript, scorerVars, scores, runs>>

NextDetector ==
    \/ \E tc \in ToolCalls : AddOutputToolCall(tc)
    \/ \E role \in Roles, l \in {NoList, List(<<>>)} : AddMessage(role, l)
    \/ \E tc \in ToolCalls : AddMessageToolCall(tc)
    \/ Detect

SpecDetector == InitDetector /\ [][NextDetector]_vars

\* --------------------------------------------------- scoring calls (score)
\* The locals kept in one place that every scoring call writes and reads.
StoreFrameShared(frames, i, f) == [j \in DOMAIN frames |-> f]

\* A scoring call's locals live in its own coroutine frame.
StoreFrame(frames, i, f) == [frames EXCEPT ![i] = f]

\* Lines 132-152: score() up to its return without grading or to its await.
ScoreStart(i) ==
    /\ pc[i] = "start"
    /\ started' = Append(started, i)
    /\ LET f == Frame(samples[i])
       IN  /\ frame' = StoreFrame(frame, i, f)
           /\ IF Abstains(f)
              THEN /\ result' = [result EXCEPT ![i] = <<AbstainScore(f)>>]
                   /\ pc' = [pc EXCEPT ![i] = "done"]
                   /\ completed' = Append(completed, i)
                   /\ UNCHANGED grader_calls
              ELSE /\ grader_calls' = [grader_calls EXCEPT ![i] = @ + 1]
                   /\ pc' = [pc EXCEPT ![i] = "await"]
                   /\ UNCHANGED <<result, completed>>
    /\ UNCHANGED <<transcript, detected, samples, graded, scores, runs>>

\* Lines 152-167: baseline_grader returned graded; score() resumes and returns,
\* or raises on line 162.
GraderReturn(i, g) ==
    /\ pc[i] = "await"
    /\ graded' = [graded EXCEPT ![i] = <<g>>]
    /\ IF MergeRaises(frame[i], g)
       THEN /\ pc' = [pc EXCEPT ![i] = "raised"]
            /\ UNCHANGED <<result, completed>>
       ELSE /\ result' = [result EXCEPT ![i] = <<MergeScore(frame[i], g)>>]
            /\ pc' = [pc EXCEPT ![i] = "done"]
            /\ completed' = Append(completed, i)
    /\ UNCHANGED <<transcript, detected, samples, frame, grader_calls, started,
                   scores, runs>>

\* Line 152: baseline_grader raised; the exception propagates out of score().
GraderRaise(i) ==
    /\ pc[i] = "await"
    /\ pc' = [pc EXCEPT ![i] = "raised"]
    /\ UNCHANGED <<transcript, detected, samples, frame, graded, result,
                   grader_calls, started, completed, scores, runs>>

\* The harness hands the returned Scores to the metric once every call returned.
Collect ==
    /\ samples # <<>>
    /\ scores = <<>>
    /\ \A i \in DOMAIN pc : pc[i] = "done"
    /\ scores' = [k \in 1..Len(completed) |-> result[completed[k]][1]]
    /\ UNCHANGED <<transcript, detected, scorerVars, runs>>

\* Lines 71-114: one run of metric_calculator on the collection.
ComputeMetrics ==
    /\ Len(runs) < 2
    /\ samples # <<>> => scores # <<>>
    /\ runs' = Append(runs, [value |-> metric_calculator(scores),
                             divisions |-> Divisions(scores)])
    /\ UNCHANGED <<transcript, detected, scorerVars, scores>>

\* n scoring calls, each on a TaskState of States, none started.
InitScoring(n, States) ==
    /\ transcript = NoTranscript
    /\ detected = NotDetected
    /\ samples \in [1..n -> States]
    /\ pc = [i \in 1..n |-> "start"]
    /\ frame = [i \in 1..n |-> NoFrame]
    /\ graded = [i \in 1..n |-> <<>>]
    /\ result = [i \in 1..n |-> <<>>]
    /\ grader_calls = [i \in 1..n |-> 0]
    /\ started = <<>>
    /\ completed = <<>>
    /\ scores = <<>>
    /\ runs = <<>>

\* ---------------------------------------------- SpecScorer: one scoring call
\* All strings over Chars of length at most n.
Strings(n) == UNION {[1..k -> Chars] : k \in 0..n}

Completions == {NoCompletion} \cup {Completion(s) : s \in Strings(MaxLen)}

\* Transcripts covering each way the detector answers: no message or no tool
\* calls, one entry of every shape on the output message, and the same with an
\* assistant message in the history that names another tool.
SampleStates ==
    {TaskState(c, p, h) :
        c \in Completions,
        p \in {NoList, List(<<>>)} \cup {List(<<tc>>) : tc \in ToolCalls},
        h \in {<<>>,
               <<Message("assistant",
                         List(<<[shape |-> "dict", name |-> "lookup",
                                 function |-> NoFunction]>>))>>}}

\* What baseline_grader may return: a Score whose metadata is None or holds any
\* subset of the keys below.
BaselineMetadata ==
    {NoMetadata} \cup
    {Metadata(g @@ l @@ a @@ t) :
        g \in {EmptyDict} \cup
              {[grade |-> x] : x \in {None, "correct", "incorrect", "Incorrect",
                                      "not_attempted", "NOT_ATTEMPTED"}},
        l \in {EmptyDict, [grade_letter |-> "A"], [grade_letter |-> "C"]},
        a \in {EmptyDict} \cup
              {[abstention_reason |-> x] : x \in {None, "", "refusal"}},
        t \in {EmptyDict,
               [tool_called |-> TRUE, tools |-> <<"stale">>],
               [tool_called |-> FALSE, tools |-> <<>>]}}

BaselineResults ==
    {Score(v[1], v[2], m) : v \in {<<1, <<"a">>>>, <<0, <<"b">>>>},
                            m \in BaselineMetadata}

InitScorer == InitScoring(1, SampleStates)

NextScorer ==
    \/ ScoreStart(1)
    \/ \E g \in BaselineResults : GraderReturn(1, g)
    \/ GraderRaise(1)

SpecScorer == InitScorer /\ [][NextScorer]_vars

\* ------------------------------------------ SpecConcurrent: concurrent calls
SmallStates ==
    {TaskState(c, p, h) :
        c \in {Completion(<<>>), Completion(<<"a">>)},
        p \in {NoList,
               List(<<[shape |-> "object", name |-> "search",
                       function |-> NoFunction]>>)},
        h \in {<<>>,
               <<Message("assistant",
                         List(<<[shape |-> "dict", name |-> None,
                                 function |-> Function("fetch")]>>))>>}}

SmallResults ==
    {Score(1, <<"a">>, Metadata([grade |-> "correct", grade_letter |-> "A"])),
     Score(0, <<"a">>, Metadata([grade |-> "incorrect", grade_letter |-> "B"])),
     Score(0, <<"a">>, Metadata([grade |-> "not_attempted", grade_letter |-> "C"]))}

InitConcurrent == InitScoring(NSamples, SmallStates)

NextConcurrent ==
    \/ \E i \in 1..NSamples : ScoreStart(i)
    \/ \E i \in 1..NSamples, g \in SmallResults : GraderReturn(i, g)
    \/ \E i \in 1..NSamples : GraderRaise(i)
    \/ Collect
    \/ ComputeMetrics

SpecConcurrent == InitConcurrent /\ [][NextConcurrent]_vars

\* -------------------------------------------- SpecMetrics: the aggregator
\* Metadata of the scores handed to the aggregator: None, or any subset of
\* the keys it reads.  A grade of None reads as a missing one (md.get("grade")
\* is None for both) and is left out.
MetricMetadata ==
    {NoMetadata} \cup
    {Metadata(g @@ t @@ a) :
        g \in {EmptyDict} \cup
              {[grade |-> x] : x \in {"CORRECT", "incorrect", "not_attempted"}},
        t \in {EmptyDict, [tool_called |-> TRUE], [tool_called |-> FALSE]},
        a \in {EmptyDict, [abstention_reason |-> "tool_call"]}}

MetricScores == {Score(0, <<>>, m) : m \in MetricMetadata}

ScoreCollections == UNION {[1..n -> MetricScores] : n \in 0..MaxScores}

InitMetrics ==
    /\ transcript = NoTranscript
    /\ detected = NotDetected
    /\ NoScoring
    /\ scores \in ScoreCollections
    /\ runs = <<>>

NextMetrics == ComputeMetrics

SpecMetrics == InitMetrics /\ [][NextMetrics]_vars

\* ===================================================================== claims
\* The names of a tool-invocation list, in the list's order, entries without
\* an extractable name left out.
NamesInOrder(calls) ==
    LET names == [k \in 1..Len(calls) |-> ExtractName(calls[k])]
    IN  SelectSeq(names, Truthy)

\* The history positions of the assistant messages with a non-empty list.
AssistantCalls(messages) ==
    {k \in 1..Len(messages) :
        messages[k].role = "assistant" /\ TruthyList(messages[k].tool_calls)}

First(S) == CHOOSE k \in S : \A j \in S : k <= j

\* C3: when the primary output message has a non-empty tool-invocation list,
\* the detector returns tool_called = true and the names of that list in its
\* order (nameless entries skipped), whatever the message history holds.
C3_PrimaryListDecides ==
    (detected.done /\ TruthyList(transcript.output_tool_calls)) =>
        /\ detected.tool_called
        /\ detected.tool_names = NamesInOrder(transcript.output_tool_calls.items)

\* A detection on a primary list with a name, while an assistant message of
\* the history carries invocations with other names.
C3_Witness ==
    /\ detected.done
    /\ TruthyList(transcript.output_tool_calls)
    /\ detected.tool_names # <<>>
    /\ \E k \in AssistantCalls(transcript.messages) :
          /\ NamesInOrder(transcript.messages[k].tool_calls.items) # <<>>
          /\ NamesInOrder(transcript.messages[k].tool_calls.items)
                 # detected.tool_names

\* C4: when the primary output has no or an empty list, the detector answers
\* from the first assistant message of the history with a non-empty list, and
\* from that message only; with no such message it returns (false, []).
C4_FirstAssistantMessageDecides ==
    (detected.done /\ ~TruthyList(transcript.output_tool_calls)) =>
        IF AssistantCalls(transcript.messages) # {}
        THEN /\ detected.tool_called
             /\ detected.tool_names =
                    NamesInOrder(transcript.messages[
                        First(AssistantCalls(transcript.messages))].tool_calls.items)
        ELSE ~detected.tool_called /\ detected.tool_names = <<>>

\* A detection answered from the second message of the history, the first
\* being a user message that carries a named invocation of its own.
C4_Witness ==
    /\ detected.done
    /\ ~TruthyList(transcript.output_tool_calls)
    /\ Len(transcript.messages) = 2
    /\ transcript.messages[1].role = "user"
    /\ NamesInOrder(transcript.messages[1].tool_calls.items) # <<>>
    /\ AssistantCalls(transcript.messages) = {2}
    /\ detected.tool_names # <<>>
    /\ detected.tool_names # NamesInOrder(transcript.messages[1].tool_calls.items)

\* ------------------------------------------------------- claims on score()
\* The completion text is empty once trimmed: absent, empty or whitespace only.
BlankCompletion(state) ==
    state.completion.none
        \/ \A k \in 1..Len(state.completion.text) :
               state.completion.text[k] \in Whitespace

\* The metadata of the Score call i returned.
ResultMd(i) == OrEmptyDict(result[i][1].metadata)

\* The metadata baseline_grader returned to call i.
GradedMd(i) == OrEmptyDict(graded[i][1].metadata)

\* C1: a sample for which the detector reports a tool call and whose output
\* text is empty after trimming gets value 0.0, grade not_attempted, letter C,
\* tool_called true, the detected names and abstention_reason tool_call, and
\* the baseline grader is never invoked for it.
C1_ToolCallWithoutAnswerAbstains ==
    (/\ pc[1] # "start"
     /\ extract_tool_calls(samples[1]).tool_called
     /\ BlankCompletion(samples[1])) =>
        /\ pc[1] = "done"
        /\ grader_calls[1] = 0
        /\ graded[1] = <<>>
        /\ result[1] =
             <<Score(0, <<>>,
                     Metadata([grade |-> "not_attempted",
                               grade_letter |-> "C",
                               tool_called |-> TRUE,
                               tools |-> extract_tool_calls(samples[1]).tool_names,
                               abstention_reason |-> "tool_call"]))>>

\* A returned abstention on a whitespace-only completion with a named tool.
C1_Witness ==
    /\ pc[1] = "done"
    /\ ~samples[1].completion.none
    /\ Len(samples[1].completion.text) = MaxLen
    /\ BlankCompletion(samples[1])
    /\ extract_tool_calls(samples[1]).tool_called
    /\ ResultMd(1).tools # <<>>

\* C2: a sample whose trimmed output text is non-empty has the baseline grader
\* invoked exactly once, and the Score returned carries the baseline's value
\* and answer, the detector's tool_called and tools in place of any the
\* baseline's metadata held, and every other baseline key but
\* abstention_reason as the baseline returned it.
C2_AnswerIsDelegated ==
    (pc[1] # "start" /\ ~BlankCompletion(samples[1])) =>
        /\ grader_calls[1] = 1
        /\ pc[1] = "done" =>
             /\ graded[1] # <<>>
             /\ result[1][1].value = graded[1][1].value
             /\ result[1][1].answer = graded[1][1].answer
             /\ ~result[1][1].metadata.none
             /\ ResultMd(1).tool_called = extract_tool_calls(samples[1]).tool_called
             /\ ResultMd(1).tools = extract_tool_calls(samples[1]).tool_names
             /\ DOMAIN ResultMd(1) =
                    DOMAIN GradedMd(1) \cup {"tool_called", "tools", "abstention_reason"}
             /\ \A k \in DOMAIN GradedMd(1) \
                           {"tool_called", "tools", "abstention_reason"} :
                    ResultMd(1)[k] = GradedMd(1)[k]

\* A graded answer with a tool call, where the baseline's metadata held a
\* tool_called and tools of its own that differ from the detector's.
C2_Witness ==
    /\ pc[1] = "done"
    /\ ~BlankCompletion(samples[1])
    /\ graded[1] # <<>>
    /\ "tools" \in DOMAIN GradedMd(1)
    /\ "grade_letter" \in DOMAIN GradedMd(1)
    /\ GradedMd(1).tools # extract_tool_calls(samples[1]).tool_names
    /\ extract_tool_calls(samples[1]).tool_names # <<>>

\* The baseline grader returned an abstention_reason of its own.
BaselineReason(i) ==
    graded[i] # <<>> /\ Truthy(Get(GradedMd(i), "abstention_reason"))

\* The baseline grader itself emitted not-attempted, in any letter case.
BaselineNotAttempted(i) ==
    /\ graded[i] # <<>>
    /\ "grade" \in DOMAIN GradedMd(i)
    /\ Lower(GradedMd(i).grade) = "not_attempted"

\* The lower-cased grade of the Score call i returned, "" when it has none.
ResultGrade(i) ==
    IF "grade" \in DOMAIN ResultMd(i) THEN Lower(ResultMd(i).grade) ELSE ""

\* C5 as stated: in the detector's result and in every Score returned,
\* tool_called is true if and only if tools is non-empty.
C5_AsStated ==
    /\ pc[1] # "start" => (frame[1].tool_called <=> frame[1].tool_names # <<>>)
    /\ pc[1] = "done" => (ResultMd(1).tool_called <=> ResultMd(1).tools # <<>>)

\* C5, amended: in the detector's result and in every Score returned,
\* tool_called is true whenever tools is non-empty; tool_called is false only
\* with empty tools.
C5_NamesImplyToolCalled ==
    /\ pc[1] # "start" => (frame[1].tool_names # <<>> => frame[1].tool_called)
    /\ pc[1] = "done" => (ResultMd(1).tools # <<>> => ResultMd(1).tool_called)

\* A returned Score with a tool name, graded by a baseline whose own metadata
\* said tool_called = false.
C5_Witness ==
    /\ pc[1] = "done"
    /\ graded[1] # <<>>
    /\ "tool_called" \in DOMAIN GradedMd(1)
    /\ ~GradedMd(1).tool_called
    /\ ResultMd(1).tools # <<>>
    /\ ResultMd(1).tool_called

\* C6 as stated: in every Score returned, grade is not_attempted if and only
\* if abstention_reason is non-null or the baseline emitted not-attempted; a
\* correct or incorrect Score never carries a non-null abstention_reason.
C6_AsStated ==
    pc[1] = "done" =>
        /\ ResultGrade(1) = "not_attempted" <=>
               (Get(ResultMd(1), "abstention_reason") # None
                    \/ BaselineNotAttempted(1))
        /\ ResultGrade(1) \in {"correct", "incorrect"} =>
               Get(ResultMd(1), "abstention_reason") = None

\* C6, amended: the equivalence holds for every Score returned unless the
\* baseline's metadata carried an abstention_reason of its own; a correct or
\* incorrect Score carries a non-null abstention_reason only when it is the
\* baseline's own, passed through unchanged.
C6_GradeMatchesReason ==
    pc[1] = "done" =>
        /\ ~BaselineReason(1) =>
               (ResultGrade(1) = "not_attempted" <=>
                    (Get(ResultMd(1), "abstention_reason") # None
                         \/ BaselineNotAttempted(1)))
        /\ (/\ ResultGrade(1) \in {"correct", "incorrect"}
            /\ Get(ResultMd(1), "abstention_reason") # None) =>
               /\ BaselineReason(1)
               /\ ResultMd(1).abstention_reason = GradedMd(1).abstention_reason

\* A Score graded not_attempted by the baseline with no tool call, which the
\* scorer tagged grader_not_attempted.
C6_Witness ==
    /\ pc[1] = "done"
    /\ graded[1] # <<>>
    /\ ~BaselineReason(1)
    /\ ResultGrade(1) = "not_attempted"
    /\ ResultMd(1).abstention_reason = "grader_not_attempted"

\* The case of C7: a tool was called, the trimmed answer is non-empty, and the
\* baseline returned not_attempted with no abstention_reason of its own.
C7_Case ==
    /\ pc[1] = "done"
    /\ extract_tool_calls(samples[1]).tool_called
    /\ ~BlankCompletion(samples[1])
    /\ BaselineNotAttempted(1)
    /\ ~BaselineReason(1)

\* C7 as stated: in that case the Score has abstention_reason
\* grader_not_attempted.
C7_AsStated ==
    C7_Case => Get(ResultMd(1), "abstention_reason") = "grader_not_attempted"

\* C7, amended: in that case the Score has abstention_reason null, neither
\* tool_call nor grader_not_attempted.
C7_ReasonIsNull ==
    C7_Case =>
        /\ "abstention_reason" \in DOMAIN ResultMd(1)
        /\ ResultMd(1).abstention_reason = None

\* The case of C7 reached with an upper-case grade from the baseline.
C7_Witness ==
    /\ C7_Case
    /\ GradedMd(1).grade = "NOT_ATTEMPTED"
    /\ ResultMd(1).tools # <<>>

\* ------------------------------------------------- claims on the aggregator
\* What the aggregator reads of a score: its lower-cased grade ("" when the
\* grade is missing or None), its tool_called flag and its abstention_reason.
GradeOf(s) ==
    LET md == OrEmptyDict(s.metadata)
    IN  IF "grade" \in DOMAIN md /\ md.grade # None THEN Lower(md.grade) ELSE ""

ToolOf(s) ==
    LET md == OrEmptyDict(s.metadata)
    IN  "tool_called" \in DOMAIN md /\ md.tool_called

ReasonOf(s) ==
    LET md == OrEmptyDict(s.metadata)
    IN  IF "abstention_reason" \in DOMAIN md THEN md.abstention_reason ELSE None

\* The samples of each tally, as sets of positions in the collection.
Attempted == {k \in 1..Len(scores) : GradeOf(scores[k]) \in {"correct", "incorrect"}}
Incorrect == {k \in 1..Len(scores) : GradeOf(scores[k]) = "incorrect"}
ToolCalled == {k \in 1..Len(scores) : ToolOf(scores[k])}
AbstainViaTool ==
    {k \in 1..Len(scores) :
        /\ k \notin Attempted
        /\ ToolOf(scores[k])
        /\ ReasonOf(scores[k]) = "tool_call"}

\* The rate r, a fraction, lies in [0,1].
InUnit(r) == r[2] > 0 /\ 0 <= r[1] /\ r[1] <= r[2]

\* The rate r equals n / d.
IsRatio(r, n, d) == r[2] > 0 /\ r[1] * d = n * r[2]

\* C8: the aggregator never counts a sample as both attempted and abstaining
\* via a tool: attempted + abstain_via_tool <= total, abstain_via_tool <=
\* tool_called, incorrect <= attempted, every rate lies in [0,1] and
\* attempted_answer_rate + abstain_via_tool_rate <= 1.
C8_TalliesExclusive ==
    LET t == Tally(ZeroTally, scores)
        total == Len(scores)
    IN  /\ t.attempted_answers + t.abstain_via_tool <= total
        /\ t.abstain_via_tool <= t.tool_called
        /\ t.tool_called <= total
        /\ t.incorrect_answers <= t.attempted_answers
        /\ \A k \in 1..Len(runs) :
              LET m == runs[k].value
              IN  /\ InUnit(m.search_call_rate)
                  /\ InUnit(m.abstain_via_tool_rate)
                  /\ InUnit(m.attempted_answer_rate)
                  /\ InUnit(m.hallucination_rate)
                  /\ m.attempted_answer_rate[1] * m.abstain_via_tool_rate[2]
                       + m.abstain_via_tool_rate[1] * m.attempted_answer_rate[2]
                       <= m.attempted_answer_rate[2] * m.abstain_via_tool_rate[2]

\* Metrics of a collection in which every sample is either attempted or an
\* abstention via a tool, one of the attempted ones carrying tool_called and
\* abstention_reason tool_call as well.
C8_Witness ==
    /\ runs # <<>>
    /\ Len(scores) >= 2
    /\ AbstainViaTool # {}
    /\ Attempted \cup AbstainViaTool = 1..Len(scores)
    /\ \E k \in Attempted : ToolOf(scores[k]) /\ ReasonOf(scores[k]) = "tool_call"

ScoredAlone(state, g) ==
    IF Abstains(Frame(state))
    THEN AbstainScore(Frame(state))
    ELSE MergeScore(Frame(state), g[1])

\* The returned Scores in the order of the samples.
InSampleOrder == [i \in 1..Len(samples) |-> result[i][1]]

\* C10: with scoring calls interleaved at the await on the baseline grader,
\* each returned Score is the one the sample gets when scored alone, a call
\* that abstains never asks the grader and any other asks it once, and the
\* metrics over the completed collection are those of the Scores in sample
\* order, whatever the order in which the calls completed.
C10_CallsAreIndependent ==
    /\ \A i \in DOMAIN pc :
          /\ pc[i] = "done" => result[i] = <<ScoredAlone(samples[i], graded[i])>>
          /\ pc[i] # "start" =>
                grader_calls[i] = IF Abstains(Frame(samples[i])) THEN 0 ELSE 1
    /\ \A k \in 1..Len(runs) :
          runs[k].value = metric_calculator(InSampleOrder)

\* Call 1 began first and was suspended on the grader while call 2, on a
\* transcript with other tool names, began and returned; call 1 returned
\* after it, with a different Score, and the metrics were computed.
C10_Witness ==
    /\ Len(started) >= 2
    /\ Len(completed) >= 2
    /\ started[1] = 1 /\ started[2] = 2
    /\ completed[1] = 2 /\ completed[2] = 1
    /\ grader_calls[1] = 1
    /\ grader_calls[2] = 1
    /\ frame[1].tool_names # frame[2].tool_names
    /\ result[1] # result[2]
    /\ runs # <<>>

====
